---- MODULE Spec2Model ----
(***************************************************************************)
(* WebPageAgent (src/agent.js, the class that starts at line 891): the     *)
(* task orchestrator executeTask and the execution loop it drives.         *)
(*                                                                         *)
(* The class body defines several methods twice (callGeminiAPI,            *)
(* parseActionPlan, performClick, performType, performSelect,              *)
(* performScroll, performWait).  In a JavaScript class body the later      *)
(* definition replaces the earlier one, so the model follows the later     *)
(* definitions wherever a method is called.                                *)
(*                                                                         *)
(* JavaScript runs one task at a time; a call of an async function is      *)
(* suspended only where it awaits a timer or the network.  One action of   *)
(* the model is the code between two such suspension points.  Several      *)
(* executeTask calls on the one agent of a page (window.webPageAgent) may  *)
(* be in progress at once, each suspended at its own await.                *)
(***************************************************************************)
EXTENDS Integers, Sequences, FiniteSets, TLC

\* ---------------------------------------------------------------- bounds
MaxCalls == 2        \* executeTask calls made on the agent
MaxSteps == 1        \* longest plan the reasoning service returns
MaxNav == 1          \* location changes of the page that are observed
StackDepth == 2      \* frames a runaway recursion adds before the engine stops it
MaxPriorRuns == 2    \* task runs the page has seen before the modelled calls
MaxPolls == 2        \* polls of a wait condition before its timeout expires
MaxSignals == 1      \* mutation bursts and page error messages that are observed
MaxRunSteps == 2     \* longest plan of the single observed run

Calls == 1..MaxCalls

\* ---------------------------------------------------------------- state
VARIABLES
    isRunning,        \* this.isRunning
    actionHistory,    \* this.actionHistory: per entry the action of its step, "error" or "navigation"
    currentTask,      \* this.currentTask (0 = null)
    mutationObservers,\* MutationObservers currently observing document.body
    urlIntervals,     \* setInterval timers of setupActionMonitoring still active
    consoleWrappers,  \* wrappers installed around console.error
    href,             \* window.location.href
    lastUrl,          \* this.lastUrl
    phase,            \* per call: orchestrator phase
    pos,              \* per call: where inside Executing the call is suspended
    trace,            \* per call: phases entered so far, in order
    planLen,          \* per call: number of steps of actionPlan.steps (-1: unknown yet)
    idx,              \* per call: steps of the plan started so far
    step,             \* per call: the step being processed
    errMsg,           \* per call: message of the error a recovery is working on
    results,          \* per call: results array of executeWithIntelligence
    apiCalls,         \* per call: reasoning-service requests issued
    prims,            \* per call: writes made to the page (location writes)
    cause,            \* per call: what ended the try block
    ret,              \* per call: what the caller of executeTask observes
    plan,             \* per call: actionPlan.steps
    tally,            \* per call: what has happened to the step started last
    elapsed,          \* per call: polls the wait condition in progress has made
    signals,          \* mutation bursts and page error messages delivered so far
    world,            \* what the popup, the reasoning service and the page may do
    dom,              \* the elements of the document, in document order
    acts,             \* primitive actions applied to elements by the running routine
    routine,          \* the element routine of executeAction that is in progress
    probe             \* argument and result of a function applied on its own

vars == <<isRunning, actionHistory, currentTask, mutationObservers, urlIntervals,
          consoleWrappers, href, lastUrl, phase, pos, trace, planLen, idx, step,
          errMsg, results, apiCalls, prims, cause, ret, plan, tally, elapsed, signals, world,
          dom, acts, routine, probe>>

agentVars == <<isRunning, actionHistory, currentTask>>
monitorVars == <<mutationObservers, urlIntervals, consoleWrappers, lastUrl>>
\* state of the task orchestrator
taskVars == <<isRunning, actionHistory, currentTask, mutationObservers, urlIntervals,
              consoleWrappers, href, lastUrl, phase, pos, trace, planLen, idx, step,
              errMsg, results, apiCalls, prims, cause, ret, plan, tally, elapsed, signals,
              world>>
\* state of the element routines
elementVars == <<dom, acts, routine>>

\* ---------------------------------------------------------------- values
Phases == <<"Idle", "Analyzing", "Planning", "Executing", "Verifying", "Reporting", "Done">>
Terminal == {"Done", "Failed"}
Active == {"Analyzing", "Planning", "Executing", "Verifying"}

NoStep == [action |-> "-", optional |-> FALSE, selector |-> "none", alt |-> FALSE]
\* What the caller of executeTask gets.  actionsPerformed is the number of
\* entries of the array it is handed; accrued is the number of entries the
\* history held when the try block was left.
NoRet == [kind |-> "none", success |-> FALSE, error |-> "", actionsPerformed |-> 0,
          accrued |-> 0, report |-> FALSE]
Result(k, ok, err, h, h0, rep) ==
    [kind |-> k, success |-> ok, error |-> err, actionsPerformed |-> Len(h),
     accrued |-> Len(h0), report |-> rep]

\* "hover": a kind outside the switch; "none": step.action missing; "undefined": the step itself is missing
ActionKinds == {"click", "type", "select", "scroll", "wait", "extract", "navigate", "hover", "none",
                "undefined"}
SelectorKinds == {"none", "valid", "invalid"}
\* classifier keywords that the text of a selector may contain
SelectorWords == {{}, {"timeout"}, {"permission"}, {"network"}}
Step(a, o, sel, alt) == [action |-> a, optional |-> o, selector |-> sel, alt |-> alt]
\* the steps that plans are made of
StepSet == {Step("click", FALSE, "valid", FALSE), Step("select", TRUE, "valid", TRUE),
            Step("type", FALSE, "none", TRUE), Step("scroll", FALSE, "none", FALSE),
            Step("wait", TRUE, "valid", FALSE), Step("extract", TRUE, "valid", FALSE),
            Step("extract", FALSE, "none", FALSE), Step("navigate", FALSE, "none", FALSE),
            Step("hover", TRUE, "valid", FALSE), Step("click", FALSE, "invalid", FALSE),
            Step("none", FALSE, "none", FALSE), Step("undefined", FALSE, "none", FALSE),
            Step("select", FALSE, "valid", FALSE), Step("type", FALSE, "valid", FALSE),
            Step("wait", FALSE, "valid", FALSE)}

\* The surroundings of the agent.  "open": the popup makes up to MaxCalls
\* calls, the reasoning service answers with any plan of up to MaxSteps steps
\* and a selector query may or may not match.  The scenarios of the
\* specification fix one call, one plan and one page:
\*   ScenarioA  one mandatory select step, its radio button is on the page
\*   ScenarioB  one mandatory click step, its selector never matches
\*   ScenarioC  type, select, click; the three elements are on the page
\* "single": one call with any plan of up to MaxRunSteps steps, on a page that
\* also changes its tree and logs errors of its own.
Worlds == {"open", "single", "ScenarioA", "ScenarioB", "ScenarioC"}
Scenarios == {"ScenarioA", "ScenarioB", "ScenarioC"}
PlansUpTo(n) == UNION {[1..k -> StepSet] : k \in 0..n}
PlanA == <<Step("select", FALSE, "valid", FALSE)>>
PlanB == <<Step("click", FALSE, "valid", FALSE)>>
PlanC == <<Step("type", FALSE, "valid", FALSE), Step("select", FALSE, "valid", FALSE),
           Step("click", FALSE, "valid", FALSE)>>
PlansOf(w) ==
    CASE w = "ScenarioA" -> {PlanA}
      [] w = "ScenarioB" -> {PlanB}
      [] w = "ScenarioC" -> {PlanC}
      [] w = "single" -> PlansUpTo(MaxRunSteps)
      [] OTHER -> PlansUpTo(MaxSteps)
\* the outcomes a query of the step's selector can have
MatchesOf(w) ==
    CASE w \in {"ScenarioA", "ScenarioC"} -> {TRUE}
      [] w = "ScenarioB" -> {FALSE}
      [] OTHER -> BOOLEAN
CallsOf(w) == IF w = "open" THEN MaxCalls ELSE 1

\* Nothing has happened to a step yet.  action: its kind; acted: its action has been performed;
\* raised: errors its processing has raised; stage: the part of the iteration
\* that raised the last one; recovered: recovery strategies invoked for it;
\* category: what classifyError made of the error.
NoTally == [action |-> "-", optional |-> FALSE, acted |-> FALSE, raised |-> 0, stage |-> "-",
            recovered |-> 0, category |-> "-"]
NoSignals == [mutations |-> 0, errors |-> 0]
\* no element routine in progress, no function applied
NoRoutine == [op |-> "-", sel |-> "-", by |-> "-", match |-> TRUE, targets |-> <<>>, i |-> 0,
              before |-> <<>>, round |-> 0, waits |-> 0, result |-> "-"]
NoProbe == [fn |-> "-"]
ElementsIdle == dom = <<>> /\ acts = <<>> /\ routine = NoRoutine

Init ==
    /\ isRunning = FALSE
    /\ actionHistory = <<>>
    /\ currentTask = 0
    /\ mutationObservers = 0
    /\ urlIntervals = 0
    /\ consoleWrappers = 0
    /\ href = 0
    /\ lastUrl = 0
    /\ phase = [c \in Calls |-> "Idle"]
    /\ pos = [c \in Calls |-> "-"]
    /\ trace = [c \in Calls |-> <<"Idle">>]
    /\ planLen = [c \in Calls |-> -1]
    /\ idx = [c \in Calls |-> 0]
    /\ step = [c \in Calls |-> NoStep]
    /\ errMsg = [c \in Calls |-> {}]
    /\ results = [c \in Calls |-> <<>>]
    /\ apiCalls = [c \in Calls |-> 0]
    /\ prims = [c \in Calls |-> 0]
    /\ cause = [c \in Calls |-> "none"]
    /\ ret = [c \in Calls |-> NoRet]
    /\ plan = [c \in Calls |-> <<>>]
    /\ tally = [c \in Calls |-> NoTally]
    /\ elapsed = [c \in Calls |-> 0]
    /\ signals = NoSignals
    /\ world = "open"
    /\ ElementsIdle
    /\ probe = NoProbe

Set(f, c, v) == [f EXCEPT ![c] = v]

\* ------------------------------------------------------ error classifier
\* An error message is modelled by the set of classifier keywords its
\* lower-cased text contains; words: the keywords of the selector it quotes.
MsgInvalidStep == {}                      \* 'Invalid step: action is required'
MsgElementNotFound == {"not found"}       \* `Element not found: ${step.selector}`
MsgNoElements == {"no element"}           \* 'No elements found for: [object Object]'
MsgInvalidSelector(words) == words        \* DOMException: '<selector>' is not a valid selector
MsgUnknownAction == {}                    \* `Unknown action type: ${step.action}`
MsgBadParameters == {}                    \* 'Invalid extract parameters', 'URL is required for navigation'
MsgVerificationFailed == {"not found"}    \* `Verification failed: Element not found ${selector}`
MsgWaitTimedOut(words) == words           \* `Wait condition timed out: ${selector}`

classifyError(msg) ==
    IF "not found" \in msg \/ "no element" \in msg THEN "element_missing"
    ELSE IF "timeout" \in msg THEN "timeout"
    ELSE IF "permission" \in msg \/ "access" \in msg THEN "permission_denied"
    ELSE IF "network" \in msg \/ "connection" \in msg THEN "network_error"
    ELSE "unknown_error"

\* ------------------------------------------------------ change monitor
\* handleConsoleError: one history entry when a task is running and the text
\* does not mention 'Gemini API'.
handleConsoleError(h, run, gemini) ==
    IF run /\ ~gemini THEN Append(h, "error") ELSE h

RECURSIVE Repeat(_, _, _, _)
Repeat(h, run, gemini, n) ==
    IF n = 0 THEN h ELSE Repeat(handleConsoleError(h, run, gemini), run, gemini, n - 1)

\* A call of console.error with w wrappers installed.  Each wrapper calls
\* handleConsoleError and then this.originalConsoleError, a field of the
\* agent that every setupActionMonitoring overwrites with the console.error
\* of that moment.  With one wrapper the field holds the native function.
\* From the second setup on it holds a wrapper, which calls itself until the
\* engine raises RangeError; every frame has called handleConsoleError.
ConsoleError(h, w, run, gemini) ==
    IF w = 0 THEN [h |-> h, threw |-> FALSE]
    ELSE IF w = 1 THEN [h |-> handleConsoleError(h, run, gemini), threw |-> FALSE]
    ELSE [h |-> Repeat(h, run, gemini, StackDepth), threw |-> TRUE]

\* ------------------------------------------------------ executeTask: exits
\* finally { this.isRunning = false; this.actionHistory = []; }
FinallyRunning == FALSE
\* the finally block without its second assignment
FinallyHistory_kept(h) == h
FinallyHistory(h) == <<>>

\* The call completes: the caller sees r, the finally block has run on the
\* history h.
Complete(c, r, h, ph, why) ==
    /\ ret' = Set(ret, c, r)
    /\ cause' = Set(cause, c, why)
    /\ isRunning' = FinallyRunning
    /\ actionHistory' = FinallyHistory(h)
    /\ phase' = Set(phase, c, ph)
    /\ pos' = Set(pos, c, "-")
    /\ plan' = Set(plan, c, <<>>)
    /\ elapsed' = Set(elapsed, c, 0)

\* catch (error) of executeTask: console.error('Agent execution error:', error),
\* then the failure object.  A RangeError raised by console.error leaves the
\* catch block, and the promise of executeTask rejects.
CatchInExecuteTask(c, h, w, why, tr) ==
    LET ce == ConsoleError(h, w, isRunning, FALSE)
    IN /\ IF ce.threw
          THEN Complete(c, Result("rejected", FALSE, "RangeError", <<>>, h, FALSE),
                        ce.h, "Failed", why)
          ELSE Complete(c, Result("returned", FALSE, why, ce.h, h, FALSE),
                        ce.h, "Failed", why)
       /\ trace' = Set(trace, c, Append(tr, "Failed"))

\* ------------------------------------------------------ executeTask: phases
PhaseOnStart == "Analyzing"
PhaseOnAnalysis == "Planning"
PhaseOnPlan == "Executing"
\* executeTask going from the plan straight to the report
PhaseOnPlanEnd_unverified == "Reporting"
PhaseOnPlanEnd == "Verifying"
PhasesOnVerification == <<"Reporting", "Done">>

\* executeTask up to the fetch of analyzeTaskWithGemini
Start(c) ==
    /\ phase[c] = "Idle"
    /\ c <= CallsOf(world)
    /\ \A d \in Calls : d < c => phase[d] # "Idle"
    /\ isRunning' = TRUE
    /\ currentTask' = c
    /\ phase' = Set(phase, c, PhaseOnStart)
    /\ trace' = Set(trace, c, Append(trace[c], PhaseOnStart))
    /\ apiCalls' = Set(apiCalls, c, apiCalls[c] + 1)
    /\ UNCHANGED <<actionHistory, monitorVars, href, pos, planLen, idx, step, errMsg, results,
                   prims, cause, ret, plan, tally, elapsed, signals, world, elementVars, probe>>

\* callGeminiAPI fails (fetch rejects, status not ok, no candidates): its catch
\* logs 'Gemini API error:' and rethrows to executeTask.
ReasoningCallFailed(c) ==
    /\ phase[c] \in {"Analyzing", "Planning", "Verifying"}
    /\ LET ce == ConsoleError(actionHistory, consoleWrappers, isRunning, TRUE)
       IN CatchInExecuteTask(c, ce.h, consoleWrappers, "api_" \o phase[c], trace[c])
    /\ results' = Set(results, c, <<>>)
    /\ UNCHANGED <<currentTask, monitorVars, href, planLen, idx, step, errMsg, apiCalls, prims,
                   tally, signals, world, elementVars, probe>>

\* The analysis text arrives.  parseAnalysisResponse gets the text that
\* callGeminiAPI returns; a string has no candidates, so its catch logs
\* 'No response candidates from Gemini API' and returns the default analysis.
\* createDetailedPlan then issues the planning request.
AnalysisReceived(c) ==
    /\ phase[c] = "Analyzing"
    /\ LET ce == ConsoleError(actionHistory, consoleWrappers, isRunning, TRUE)
       IN IF ce.threw
          THEN /\ CatchInExecuteTask(c, ce.h, consoleWrappers, "RangeError", trace[c])
               /\ UNCHANGED apiCalls
          ELSE /\ actionHistory' = ce.h
               /\ phase' = Set(phase, c, PhaseOnAnalysis)
               /\ trace' = Set(trace, c, Append(trace[c], PhaseOnAnalysis))
               /\ apiCalls' = Set(apiCalls, c, apiCalls[c] + 1)
               /\ UNCHANGED <<isRunning, pos, cause, ret, plan, elapsed>>
    /\ UNCHANGED <<currentTask, monitorVars, href, planLen, idx, step, errMsg, results, prims,
                   tally, signals, world, elementVars, probe>>

\* ------------------------------------------------ executeWithIntelligence
\* Leave the call c inside the try block of executeTask with new values.
Upd(c, h, ph, p, tr, i, s, m, res, api, t) ==
    /\ actionHistory' = h
    /\ phase' = Set(phase, c, ph)
    /\ pos' = Set(pos, c, p)
    /\ trace' = Set(trace, c, tr)
    /\ idx' = Set(idx, c, i)
    /\ step' = Set(step, c, s)
    /\ errMsg' = Set(errMsg, c, m)
    /\ results' = Set(results, c, res)
    /\ apiCalls' = Set(apiCalls, c, api)
    /\ tally' = Set(tally, c, t)
    /\ elapsed' = Set(elapsed, c, 0)
    /\ UNCHANGED <<isRunning, cause, ret, plan>>

\* createDetailedPlan has returned the plan with the steps p: the call goes
\* on inside the try block of executeTask.
Planned(c, p, h, ph, ps, tr, api) ==
    /\ plan' = Set(plan, c, p)
    /\ planLen' = Set(planLen, c, Len(p))
    /\ actionHistory' = h
    /\ phase' = Set(phase, c, ph)
    /\ pos' = Set(pos, c, ps)
    /\ trace' = Set(trace, c, tr)
    /\ UNCHANGED <<isRunning, cause, ret, idx, step, errMsg, results, tally, elapsed>>
    /\ apiCalls' = Set(apiCalls, c, api)

\* An error leaves executeWithIntelligence and reaches the catch of executeTask.
\* The locals of the call (step, results) end with it.
Thrown(c, h, w, why, tr, i, t) ==
    /\ CatchInExecuteTask(c, h, w, why, tr)
    /\ tally' = Set(tally, c, t)
    /\ idx' = Set(idx, c, i)
    /\ step' = Set(step, c, NoStep)
    /\ errMsg' = Set(errMsg, c, {})
    /\ results' = Set(results, c, <<>>)
    /\ UNCHANGED apiCalls

\* The for loop goes on to the next step, or ends: executeWithIntelligence
\* returns and verifyCompletion issues the verification request.
NextIteration(c, h, i, res, t) ==
    IF i < planLen[c]
    THEN Upd(c, h, "Executing", "loop", trace[c], i, NoStep, {}, res, apiCalls[c], t)
    ELSE Upd(c, h, PhaseOnPlanEnd, "-", Append(trace[c], PhaseOnPlanEnd), i, NoStep, {}, res,
             apiCalls[c] + 1, t)

\* results.push({... success: recovery.success}); a mandatory step whose
\* recovery failed throws 'Failed to execute step'.
AbortsPlan(s, ok) == ~ok /\ ~s.optional
Entry(s, err, ok, t) ==
    [optional |-> s.optional, error |-> err, success |-> ok, acted |-> t.acted,
     category |-> t.category]
RecordRecovery(c, h, w, s, ok, i, t) ==
    LET res == Append(results[c], Entry(s, TRUE, ok, t))
    IN IF AbortsPlan(s, ok)
       THEN Thrown(c, h, w, "step_failed", trace[c], i, t)
       ELSE NextIteration(c, h, i, res, t)

AltOutcomes == {"found", "none", "invalid"}

\* What the strategy of a category returns; found: the selector it queries
\* matches.  Only element_missing queries anything.
StrategyResult_retry(cat, found) == cat \in {"element_missing", "timeout"} /\ found
StrategyResult(cat, found) == cat = "element_missing" /\ found

\* the step's tally after an error raised by the part stage of the iteration
Raised(t, stage) == [t EXCEPT !.raised = @ + 1, !.stage = stage]
\* ... and after attemptErrorRecovery has classified it and invoked the strategy
Recovering(t, cat) == [t EXCEPT !.recovered = @ + 1, !.category = cat]

\* catch (error) inside the loop: console.error(`Error executing step ...`),
\* attemptErrorRecovery = classifyError, getRecoveryStrategy, executeRecovery,
\* up to the sleep of the strategy.  The alternative selectors of an
\* element_missing recovery match ("found"), match nothing ("none") or make
\* querySelector throw ("invalid"; executeRecovery logs it).
StepFailed(c, h, w, s, msg, i, t0, stage) ==
    LET ce == ConsoleError(h, w, isRunning, FALSE)
        cat == classifyError(msg)
        t1 == Raised(t0, stage)
        t2 == Recovering(t1, cat)
        sleeps == Upd(c, ce.h, "Executing", "recovering", trace[c], i, s, msg, results[c],
                      apiCalls[c], t2)
    IN IF ce.threw
       THEN Thrown(c, ce.h, w, "RangeError", trace[c], i, t1)
       ELSE IF cat = "permission_denied"
            THEN RecordRecovery(c, ce.h, w, s, StrategyResult(cat, FALSE), i, t2)
       ELSE IF cat = "element_missing" /\ s.alt
            THEN \E alt \in AltOutcomes :
                   IF alt = "found" THEN RecordRecovery(c, ce.h, w, s, TRUE, i, t2)
                   ELSE IF alt = "invalid"
                        THEN RecordRecovery(c, ConsoleError(ce.h, w, isRunning, FALSE).h,
                                            w, s, FALSE, i, t2)
                   ELSE sleeps
       ELSE sleeps

\* verifyStepCompletion after the action (it passes, or a mandatory
\* verification throws), then the first await of intelligentWait.
AfterAction(c, h, w, s, i, t) ==
    \/ Upd(c, h, "Executing", "waiting", trace[c], i, s, {}, results[c], apiCalls[c], t)
    \/ StepFailed(c, h, w, s, MsgVerificationFailed, i, t, "verification")

\* executeActionSmart's switch: what the call of the handler does.  click,
\* type and select reach the later performClick/performType/performSelect
\* (selector, ...), which get the step object as selector: querySelectorAll
\* rejects '[object Object]', no description is passed and findElements
\* returns [], so they throw 'No elements found for: [object Object]'.
\* scroll and wait reach the later performScroll/performWait(target), which
\* do nothing for an object.  found: findElementIntelligently finds the
\* element of the step; param: the pattern, xpath or url is present.
ActionOutcome(s, found, param) ==
    CASE s.action \in {"click", "type", "select"} -> [ok |-> FALSE, msg |-> MsgNoElements]
      [] s.action \in {"scroll", "wait"} -> [ok |-> TRUE, msg |-> {}]
      [] s.action = "extract" ->
            IF s.selector = "valid"
            THEN [ok |-> found, msg |-> MsgElementNotFound]
            ELSE [ok |-> param, msg |-> MsgBadParameters]
      [] s.action = "navigate" -> [ok |-> param, msg |-> MsgBadParameters]
      [] OTHER -> [ok |-> FALSE, msg |-> MsgUnknownAction]

\* Whether the handler that returned has done what the step asks for: the
\* later performScroll/performWait(target) do nothing for a step object.
Performs(s) == s.action \in {"extract", "navigate"}

\* validateStepPreconditions: whether it returns, and the message it throws
Validation(s, found, words) ==
    IF s.action = "none" THEN [ok |-> FALSE, msg |-> MsgInvalidStep]
    ELSE IF s.selector = "invalid" THEN [ok |-> FALSE, msg |-> MsgInvalidSelector(words)]
    ELSE IF s.selector = "valid" /\ ~found /\ ~s.optional
         THEN [ok |-> FALSE, msg |-> MsgElementNotFound]
    ELSE [ok |-> TRUE, msg |-> {}]

PlanResponses == {"steps", "no_steps", "no_json"}
\* in a scenario the reasoning service answers with the plan of the scenario
ResponsesOf(w) == IF w \in Scenarios THEN {"steps"} ELSE PlanResponses

\* setupActionMonitoring: nothing it installs is ever removed
SetupObservers(n) == n + 1
SetupIntervals(n) == n + 1
SetupWrappers(n) == n + 1

\* The planning text arrives.  The later parseActionPlan(aiResponse) returns
\* JSON.parse of the braces of the text as it is, or, when there is no JSON
\* object or it does not parse, logs the error and returns
\* parseActionPlanFromText(text), an object with actions and no steps.
\* executeWithIntelligence then installs the monitors and starts the loop
\* for (let step of actionPlan.steps).
PlanHasSteps(resp) == resp = "steps"
PlanReceived(c) ==
    /\ phase[c] = "Planning"
    /\ \E resp \in ResponsesOf(world) :
         LET ce == IF resp = "no_json"
                   THEN ConsoleError(actionHistory, consoleWrappers, isRunning, FALSE)
                   ELSE [h |-> actionHistory, threw |-> FALSE]
             tr == Append(trace[c], PhaseOnPlan)
             w == SetupWrappers(consoleWrappers)
         IN IF ce.threw
            THEN /\ Thrown(c, ce.h, consoleWrappers, "RangeError", trace[c], 0, tally[c])
                 /\ UNCHANGED <<monitorVars, planLen>>
            ELSE /\ mutationObservers' = SetupObservers(mutationObservers)
                 /\ urlIntervals' = SetupIntervals(urlIntervals)
                 /\ consoleWrappers' = w
                 /\ lastUrl' = href
                 /\ IF ~PlanHasSteps(resp)
                    \* actionPlan.steps is undefined: TypeError, not iterable
                    THEN /\ Thrown(c, ce.h, w, "steps_not_iterable", tr, 0, tally[c])
                         /\ UNCHANGED planLen
                    ELSE \E p \in PlansOf(world) :
                            IF Len(p) = 0
                            THEN Planned(c, p, ce.h, PhaseOnPlanEnd, "-",
                                         Append(tr, PhaseOnPlanEnd), apiCalls[c] + 1)
                            ELSE Planned(c, p, ce.h, PhaseOnPlan, "loop", tr, apiCalls[c])
    /\ UNCHANGED <<currentTask, href, prims, signals, world, elementVars, probe>>

\* for (let step of actionPlan.steps): the iterator hands out the next index
NextIndex_skip(i) == i + 2
NextIndex(i) == i + 1

\* One iteration of the loop up to its first suspension: validation, the
\* action, the history entry, verification; or the catch block up to the
\* sleep of the recovery strategy.
StepRun(c) ==
    /\ phase[c] = "Executing" /\ pos[c] = "loop"
    /\ idx[c] < planLen[c]
    /\ LET s == plan[c][idx[c] + 1] IN
         LET i == NextIndex(idx[c])
             w == consoleWrappers
             h == actionHistory
             t0 == [NoTally EXCEPT !.action = s.action, !.optional = s.optional]
             ta == [t0 EXCEPT !.acted = Performs(s)]
         IN IF s.action = "undefined"
            \* validation throws, and the catch block reads step.description of
            \* a missing step
            THEN /\ Thrown(c, h, w, "step_undefined", trace[c], i, Raised(t0, "validation"))
                 /\ UNCHANGED <<href, prims>>
            ELSE \E found \in (IF s.selector = "valid" THEN MatchesOf(world) ELSE {FALSE}),
                    words \in (IF s.selector = "invalid" THEN SelectorWords ELSE {{}}),
                    param \in (IF s.action \in {"extract", "navigate"} THEN BOOLEAN ELSE {FALSE}) :
                 LET v == Validation(s, found, words)
                     a == ActionOutcome(s, found, param)
                 IN IF ~v.ok
                    THEN /\ StepFailed(c, h, w, s, v.msg, i, t0, "validation")
                         /\ UNCHANGED <<href, prims>>
                    ELSE IF ~a.ok
                    THEN /\ StepFailed(c, h, w, s, a.msg, i, t0, "action")
                         /\ UNCHANGED <<href, prims>>
                    ELSE IF s.action = "navigate"
                    \* window.location.href = step.url; await this.sleep(...)
                    THEN /\ \E nh \in {href, IF href < MaxNav THEN href + 1 ELSE href} :
                              href' = nh
                         /\ prims' = Set(prims, c, prims[c] + 1)
                         /\ Upd(c, h, "Executing", "navigating", trace[c], i, s, {},
                                results[c], apiCalls[c], ta)
                    ELSE /\ AfterAction(c, Append(h, s.action), w, s, i, ta)
                         /\ UNCHANGED <<href, prims>>
    /\ UNCHANGED <<currentTask, monitorVars, planLen, signals, world, elementVars, probe>>

\* performNavigate returns after its sleep; executeActionSmart appends the
\* history entry.
NavigateDone(c) ==
    /\ phase[c] = "Executing" /\ pos[c] = "navigating"
    /\ AfterAction(c, Append(actionHistory, step[c].action), consoleWrappers, step[c], idx[c],
                   tally[c])
    /\ UNCHANGED <<currentTask, monitorVars, href, planLen, prims, signals, world, elementVars,
                   probe>>

\* while (Date.now() - startTime < timeout): the time the loop has used
\* grows with every sleep
Tick_restart(n) == (n + 1) % MaxPolls
Tick(n) == n + 1

\* A poll of the loop of intelligentWait (waitConditions.selector is given)
\* does not find what it waits for and sleeps for the check interval.
WaitPoll(c) ==
    /\ phase[c] = "Executing" /\ pos[c] = "waiting"
    /\ elapsed[c] < MaxPolls
    /\ elapsed' = Set(elapsed, c, Tick(elapsed[c]))
    /\ UNCHANGED <<agentVars, monitorVars, href, phase, pos, trace, planLen, idx, step, errMsg,
                   results, apiCalls, prims, cause, ret, plan, tally, signals, world,
                   elementVars, probe>>

\* intelligentWait ends: by its sleep, by its condition, or, when the time of
\* its poll loop is used up, by the timeout (a mandatory wait condition
\* throws); then reportProgress and results.push({... success: true}).
WaitDone(c) ==
    /\ phase[c] = "Executing" /\ pos[c] = "waiting"
    /\ \/ NextIteration(c, actionHistory, idx[c],
                        Append(results[c], Entry(step[c], FALSE, TRUE, tally[c])), tally[c])
       \/ /\ elapsed[c] = MaxPolls
          /\ \E words \in SelectorWords :
               StepFailed(c, actionHistory, consoleWrappers, step[c], MsgWaitTimedOut(words),
                          idx[c], tally[c], "wait")
    /\ UNCHANGED <<currentTask, monitorVars, href, planLen, prims, signals, world, elementVars,
                   probe>>

\* The sleep of the recovery strategy ends.  element_missing queries the
\* primary selector once; every other strategy reports failure.
RecoveryDone(c) ==
    /\ phase[c] = "Executing" /\ pos[c] = "recovering"
    /\ LET s == step[c]
           w == consoleWrappers
           cat == classifyError(errMsg[c])
           ce == ConsoleError(actionHistory, w, isRunning, FALSE)
       IN IF cat = "element_missing" /\ s.selector = "invalid"
          \* querySelector throws: executeRecovery logs it and reports failure
          THEN IF ce.threw
               THEN Thrown(c, ce.h, w, "RangeError", trace[c], idx[c], tally[c])
               ELSE RecordRecovery(c, ce.h, w, s, FALSE, idx[c], tally[c])
          ELSE \E found \in (IF s.selector = "valid" THEN MatchesOf(world) ELSE {FALSE}) :
                 RecordRecovery(c, actionHistory, w, s, StrategyResult(cat, found), idx[c],
                                tally[c])
    /\ UNCHANGED <<currentTask, monitorVars, href, planLen, prims, signals, world, elementVars,
                   probe>>

\* The verification text arrives.  parseVerificationResult gets a string, logs
\* 'No response candidates from Gemini API' and returns the default verdict;
\* generateComprehensiveReport builds the report and executeTask returns.
VerifyReceived(c) ==
    /\ phase[c] = "Verifying"
    /\ LET ce == ConsoleError(actionHistory, consoleWrappers, isRunning, TRUE)
       IN IF ce.threw
          THEN CatchInExecuteTask(c, ce.h, consoleWrappers, "RangeError", trace[c])
          ELSE /\ Complete(c, Result("returned", TRUE, "", ce.h, ce.h, TRUE),
                           ce.h, "Done", "none")
               /\ trace' = Set(trace, c, trace[c] \o PhasesOnVerification)
    /\ results' = Set(results, c, <<>>)
    /\ UNCHANGED <<currentTask, monitorVars, href, planLen, idx, step, errMsg, apiCalls, prims,
                   tally, signals, world, elementVars, probe>>

\* ------------------------------------------------------ page and timers
\* The page changes its location without unloading the document.
PageNavigates ==
    /\ href < MaxNav
    /\ href' = href + 1
    /\ UNCHANGED <<agentVars, monitorVars, phase, pos, trace, planLen, idx, step, errMsg,
                   results, apiCalls, prims, cause, ret, plan, tally, elapsed, signals, world,
                   elementVars, probe>>

\* A tick of the setInterval of setupActionMonitoring that sees a new location:
\* handleUrlChange appends a navigation entry.
handleUrlChange(h) == Append(h, "navigation")
UrlPoll ==
    /\ urlIntervals > 0
    /\ href # lastUrl
    /\ actionHistory' = handleUrlChange(actionHistory)
    /\ lastUrl' = href
    /\ UNCHANGED <<isRunning, currentTask, mutationObservers, urlIntervals, consoleWrappers,
                   href, phase, pos, trace, planLen, idx, step, errMsg, results, apiCalls,
                   prims, cause, ret, plan, tally, elapsed, signals, world, elementVars, probe>>

\* The page changes more than 10 nodes at once and the observers of
\* setupActionMonitoring are called: handleDomMutations logs the count.
handleDomMutations(h) == h
MutationBurst ==
    /\ mutationObservers > 0
    /\ signals.mutations < MaxSignals
    /\ signals' = [signals EXCEPT !.mutations = @ + 1]
    /\ actionHistory' = handleDomMutations(actionHistory)
    /\ UNCHANGED <<isRunning, currentTask, monitorVars, href, phase, pos, trace, planLen, idx,
                   step, errMsg, results, apiCalls, prims, cause, ret, plan, tally, elapsed,
                   world, elementVars, probe>>

\* A script of the page calls console.error while wrappers are installed; its
\* text may hold 'Gemini API'.
\* A RangeError of the wrappers is raised in that script, not in the agent.
PageError ==
    /\ consoleWrappers > 0
    /\ signals.errors < MaxSignals
    /\ signals' = [signals EXCEPT !.errors = @ + 1]
    /\ \E gemini \in BOOLEAN :
         actionHistory' = ConsoleError(actionHistory, consoleWrappers, isRunning, gemini).h
    /\ UNCHANGED <<isRunning, currentTask, monitorVars, href, phase, pos, trace, planLen, idx,
                   step, errMsg, results, apiCalls, prims, cause, ret, plan, tally, elapsed,
                   world, elementVars, probe>>

Next ==
    \/ \E c \in Calls : Start(c)
    \/ \E c \in Calls : ReasoningCallFailed(c)
    \/ \E c \in Calls : AnalysisReceived(c)
    \/ \E c \in Calls : PlanReceived(c)
    \/ \E c \in Calls : StepRun(c)
    \/ \E c \in Calls : NavigateDone(c)
    \/ \E c \in Calls : WaitPoll(c)
    \/ \E c \in Calls : WaitDone(c)
    \/ \E c \in Calls : RecoveryDone(c)
    \/ \E c \in Calls : VerifyReceived(c)
    \/ PageNavigates
    \/ UrlPoll

Spec == Init /\ [][Next]_vars

\* The agent of a page that has already completed some task runs: every run
\* that reached executeWithIntelligence has left one observer, one interval
\* and one console.error wrapper behind.
InitAfterRuns ==
    /\ isRunning = FALSE
    /\ actionHistory = <<>>
    /\ currentTask = 0
    /\ \E n \in 0..MaxPriorRuns :
         /\ mutationObservers = n
         /\ urlIntervals = n
         /\ consoleWrappers = n
    /\ href = 0
    /\ lastUrl = 0
    /\ phase = [c \in Calls |-> "Idle"]
    /\ pos = [c \in Calls |-> "-"]
    /\ trace = [c \in Calls |-> <<"Idle">>]
    /\ planLen = [c \in Calls |-> -1]
    /\ idx = [c \in Calls |-> 0]
    /\ step = [c \in Calls |-> NoStep]
    /\ errMsg = [c \in Calls |-> {}]
    /\ results = [c \in Calls |-> <<>>]
    /\ apiCalls = [c \in Calls |-> 0]
    /\ prims = [c \in Calls |-> 0]
    /\ cause = [c \in Calls |-> "none"]
    /\ ret = [c \in Calls |-> NoRet]
    /\ plan = [c \in Calls |-> <<>>]
    /\ tally = [c \in Calls |-> NoTally]
    /\ elapsed = [c \in Calls |-> 0]
    /\ signals = NoSignals
    /\ world = "open"
    /\ ElementsIdle
    /\ probe = NoProbe

SpecAfterRuns == InitAfterRuns /\ [][Next]_vars

\* The orchestrator as the constructor leaves it, in the surroundings w, on a
\* page that has seen n earlier task runs.
TaskIdle(w, n) ==
    /\ isRunning = FALSE
    /\ actionHistory = <<>>
    /\ currentTask = 0
    /\ mutationObservers = n
    /\ urlIntervals = n
    /\ consoleWrappers = n
    /\ href = 0
    /\ lastUrl = 0
    /\ phase = [c \in Calls |-> "Idle"]
    /\ pos = [c \in Calls |-> "-"]
    /\ trace = [c \in Calls |-> <<"Idle">>]
    /\ planLen = [c \in Calls |-> -1]
    /\ idx = [c \in Calls |-> 0]
    /\ step = [c \in Calls |-> NoStep]
    /\ errMsg = [c \in Calls |-> {}]
    /\ results = [c \in Calls |-> <<>>]
    /\ apiCalls = [c \in Calls |-> 0]
    /\ prims = [c \in Calls |-> 0]
    /\ cause = [c \in Calls |-> "none"]
    /\ ret = [c \in Calls |-> NoRet]
    /\ plan = [c \in Calls |-> <<>>]
    /\ tally = [c \in Calls |-> NoTally]
    /\ elapsed = [c \in Calls |-> 0]
    /\ signals = NoSignals
    /\ world = w

\* One task run in each scenario of the specification.  The plans of the
\* scenarios hold no navigate step and none of their actions returns, so the
\* suspensions inside performNavigate and intelligentWait are never reached.
InitScenarios ==
    /\ \E w \in Scenarios : TaskIdle(w, 0)
    /\ ElementsIdle
    /\ probe = NoProbe

NextScenarios ==
    \/ \E c \in Calls : Start(c)
    \/ \E c \in Calls : ReasoningCallFailed(c)
    \/ \E c \in Calls : AnalysisReceived(c)
    \/ \E c \in Calls : PlanReceived(c)
    \/ \E c \in Calls : StepRun(c)
    \/ \E c \in Calls : RecoveryDone(c)
    \/ \E c \in Calls : VerifyReceived(c)
    \/ PageNavigates
    \/ UrlPoll
    \/ MutationBurst
    \/ PageError

SpecScenarios == InitScenarios /\ [][NextScenarios]_vars

\* One task run on a fresh agent, with every signal of the page.
InitRun ==
    /\ TaskIdle("single", 0)
    /\ ElementsIdle
    /\ probe = NoProbe

NextRun ==
    \/ Next
    \/ MutationBurst
    \/ PageError

SpecRun == InitRun /\ [][NextRun]_vars

\* The run when every timer fires and every request to the reasoning service
\* returns or fails: a call that is suspended is resumed.
Resumed(c) ==
    \/ ReasoningCallFailed(c)
    \/ AnalysisReceived(c)
    \/ PlanReceived(c)
    \/ StepRun(c)
    \/ NavigateDone(c)
    \/ WaitPoll(c)
    \/ WaitDone(c)
    \/ RecoveryDone(c)
    \/ VerifyReceived(c)

SpecLive == InitRun /\ [][NextRun]_vars /\ \A c \in Calls : WF_vars(Resumed(c))

\* ------------------------------------------- the element_missing strategy
\* The strategy of getRecoveryStrategy for element_missing, run through
\* executeRecovery, on its own.  A query of a selector matches an element,
\* matches none, or throws because the text is not a selector.
MaxAlts == 3
QueryOutcomes == {"match", "none", "invalid"}
AlternativeSelectors == UNION {[1..n -> QueryOutcomes] : n \in 0..MaxAlts}

\* for (const selector of context.step.alternativeSelectors) from index k on;
\* q: the indexes queried so far
RECURSIVE TryAlternatives(_, _, _)
TryAlternatives(alts, k, q) ==
    IF k > Len(alts) THEN [queried |-> q, end |-> "exhausted"]
    ELSE IF alts[k] = "match" THEN [queried |-> Append(q, k), end |-> "match"]
    ELSE IF alts[k] = "invalid" THEN [queried |-> Append(q, k), end |-> "threw"]
    ELSE TryAlternatives(alts, k + 1, Append(q, k))

InitRecover ==
    /\ TaskIdle("open", 0)
    /\ ElementsIdle
    /\ \E a \in AlternativeSelectors, p \in {"match", "none"} :
         probe = [fn |-> "element_missing", alts |-> a, primary |-> p, queried |-> <<>>,
                  waits |-> 0, requeried |-> 0, out |-> "-", by |-> "-"]

\* the strategy up to its return or its sleep; an error thrown by
\* querySelector is caught by executeRecovery, which reports failure
RecoverStart ==
    /\ probe.fn = "element_missing" /\ probe.out = "-"
    /\ LET r == TryAlternatives(probe.alts, 1, <<>>)
       IN probe' = [probe EXCEPT
                      !.queried = r.queried,
                      !.waits = IF r.end = "exhausted" THEN 1 ELSE 0,
                      !.out = CASE r.end = "match" -> "success"
                                [] r.end = "threw" -> "failure"
                                [] OTHER -> "sleeping",
                      !.by = IF r.end = "match" THEN "alternative" ELSE "-"]
    /\ UNCHANGED <<taskVars, elementVars>>

\* after the sleep: document.querySelector(context.step.selector)
RecoverResume ==
    /\ probe.fn = "element_missing" /\ probe.out = "sleeping"
    /\ probe' = [probe EXCEPT
                   !.requeried = 1,
                   !.out = IF probe.primary = "match" THEN "success" ELSE "failure",
                   !.by = IF probe.primary = "match" THEN "primary" ELSE "-"]
    /\ UNCHANGED <<taskVars, elementVars>>

NextRecover ==
    \/ RecoverStart
    \/ RecoverResume

SpecRecover == InitRecover /\ [][NextRecover]_vars

\* ------------------------------------------------------ classifyError alone
\* The text of an error message, as far as the classifier can tell texts
\* apart: the keywords that occur in it, each in lower or in upper case.
Keywords == {"not found", "no element", "timeout", "permission", "access", "network",
             "connection"}
Tokens == [word : Keywords, upper : BOOLEAN]
MaxWords == 2        \* keywords in one message
Texts == {t \in SUBSET Tokens : Cardinality(t) <= MaxWords}

\* error.message.toLowerCase(): the keywords of the lower-cased text
\* (the mutant: the text as it is, only its lower-case keywords are seen)
toLowerCase_asis(text) == {t.word : t \in {u \in text : ~u.upper}}
toLowerCase(text) == {t.word : t \in text}

Categories == {"element_missing", "timeout", "permission_denied", "network_error",
               "unknown_error"}
\* the keys of the strategies object
Strategies == {"element_missing", "timeout", "permission_denied", "network_error",
               "unknown_error"}
\* strategies[errorType] || strategies.unknown_error
getRecoveryStrategy(errorType) ==
    IF errorType \in Strategies THEN errorType ELSE "unknown_error"

InitClassify ==
    /\ TaskIdle("open", 0)
    /\ ElementsIdle
    /\ \E t \in Texts : probe = [fn |-> "classifyError", text |-> t, out |-> "-", handler |-> "-"]

\* attemptErrorRecovery up to the call of the strategy
Classify ==
    /\ probe.fn = "classifyError" /\ probe.out = "-"
    /\ LET errorType == classifyError(toLowerCase(probe.text))
       IN probe' = [probe EXCEPT !.out = errorType, !.handler = getRecoveryStrategy(errorType)]
    /\ UNCHANGED <<taskVars, elementVars>>

NextClassify == Classify

SpecClassify == InitClassify /\ [][NextClassify]_vars

\* ------------------------------------------- findElementIntelligently alone
\* What the page does to an element: "ok"; "hidden" (display none or
\* visibility hidden); "zero" (no area); "blocked" (pointer-events none);
\* "disabled"; "below" (its box starts below or right of the window).
ElementStates == {"ok", "hidden", "zero", "blocked", "disabled", "below"}

\* isElementVisible: area, box starts inside the window, visibility, display
isElementVisible(st) == st \notin {"hidden", "zero", "below"}
\* isElementInteractable: visible and not disabled
isElementInteractable(st) == isElementVisible(st) /\ st # "disabled"
\* isElementClickable: display, visibility, pointer-events, area, disabled
isElementClickable(st) == st \notin {"hidden", "zero", "blocked", "disabled"}

\* What a strategy finds: no element ("none") or an element in some state.
\* findByDescription returns only elements that pass isElementVisible;
\* findBySemanticContext returns null.
Yields == {"none"} \cup ElementStates
DescriptionYields == {"none"} \cup {st \in ElementStates : isElementVisible(st)}
\* The direct query of a step without selector ("absent") looks for the tag
\* named undefined and finds nothing; a text that is no selector ("invalid")
\* makes document.querySelector throw.
DirectYields == Yields \cup {"absent", "invalid"}
Locators == {l \in [direct : DirectYields, description : {"absent"} \cup DescriptionYields,
                    context : BOOLEAN, similarity : Yields] :
                l.direct \in {"absent", "invalid"} => l.similarity = "none"}
\* element && this.isElementInteractable(element)
Usable(y) == y \notin {"none", "absent"} /\ isElementInteractable(y)

\* findElementIntelligently: the strategies it invokes, in order, the verdict
\* of isElementInteractable on what each found, and the strategy whose element
\* it returns ("null": none; "threw": an error leaves the function).
\* findBySimilarity calls selector.startsWith, a TypeError without selector.
findElementIntelligently(l) ==
    LET s1 == <<"direct">>
        s2 == IF l.description # "absent" THEN s1 \o <<"description">> ELSE s1
        s3 == IF l.context THEN s2 \o <<"context">> ELSE s2
        s4 == s3 \o <<"similarity">>
    IN IF l.direct = "invalid" THEN [invoked |-> s1, from |-> "threw"]
       ELSE IF Usable(l.direct) THEN [invoked |-> s1, from |-> "direct"]
       ELSE IF l.description # "absent" /\ Usable(l.description)
            THEN [invoked |-> s2, from |-> "description"]
       ELSE IF l.direct = "absent" THEN [invoked |-> s4, from |-> "threw"]
       ELSE IF Usable(l.similarity) THEN [invoked |-> s4, from |-> "similarity"]
       ELSE [invoked |-> s4, from |-> "null"]

\* what the strategy st of the locator l finds
Found(l, st) ==
    CASE st = "direct" -> IF l.direct \in {"absent", "invalid"} THEN "none" ELSE l.direct
      [] st = "description" -> IF l.description = "absent" THEN "none" ELSE l.description
      [] st = "context" -> "none"
      [] st = "similarity" -> l.similarity

InitResolve ==
    /\ TaskIdle("open", 0)
    /\ ElementsIdle
    /\ \E l \in Locators : probe = [fn |-> "findElementIntelligently", locator |-> l,
                                     invoked |-> <<>>, verdicts |-> <<>>, from |-> "-"]

Resolve ==
    /\ probe.fn = "findElementIntelligently" /\ probe.from = "-"
    /\ LET r == findElementIntelligently(probe.locator)
       IN probe' = [probe EXCEPT
                      !.invoked = r.invoked,
                      !.verdicts = [k \in 1..Len(r.invoked) |->
                                      Usable(Found(probe.locator, r.invoked[k]))],
                      !.from = r.from]
    /\ UNCHANGED <<taskVars, elementVars>>

NextResolve == Resolve

SpecResolve == InitResolve /\ [][NextResolve]_vars

\* ------------------------------------------- the routines of executeAction
\* executeAction(action) dispatches on action.type to the later
\* performClick / performSelect / performType (selector, value, description)
\* and, for any other type, through performSmartAction to handleQuizQuestions.
\* They are run here on a small document.  action.value is given and
\* action.description is not, so findElements stops after its direct query.
MaxElements == 2     \* elements of the document
MaxRounds == 2       \* times the same action is executed on the page

Kinds == {"question", "radio", "checkbox", "text", "dropdown"}
\* checked: of a radio button or checkbox; filled: the text field or the
\* dropdown holds the value that the action writes
Elements == {e \in [kind : Kinds, st : ElementStates, checked : BOOLEAN, filled : BOOLEAN] :
                /\ e.checked => e.kind \in {"radio", "checkbox"}
                /\ e.filled => e.kind \in {"text", "dropdown"}}
\* An input that follows a question element in the document lies inside it.
\* GroupOf: the question an element lies in, 0 outside every question.
GroupOf(d, e) ==
    LET qs == {q \in 1..(e - 1) : d[q].kind = "question"}
    IN IF qs = {} THEN 0 ELSE CHOOSE q \in qs : \A r \in qs : r <= q
\* the radio buttons of one group have at most one checked member
WellFormed(d) ==
    \A e, f \in DOMAIN d :
        (/\ d[e].kind = "radio" /\ d[f].kind = "radio" /\ GroupOf(d, e) = GroupOf(d, f)
         /\ d[e].checked /\ d[f].checked) => e = f
Pages == {d \in UNION {[1..n -> Elements] : n \in 1..MaxElements} : WellFormed(d)}

RECURSIVE Ascending(_)
Ascending(S) ==
    IF S = {} THEN <<>>
    ELSE LET m == CHOOSE x \in S : \A y \in S : x <= y
         IN <<m>> \o Ascending(S \ {m})

\* selectors: input[type="radio"], input[type="checkbox"], input, select,
\* .question
Selectors == {"radio", "checkbox", "input", "select", "question"}
MatchesSelector(e, sel) ==
    CASE sel = "radio" -> e.kind = "radio"
      [] sel = "checkbox" -> e.kind = "checkbox"
      [] sel = "input" -> e.kind \in {"radio", "checkbox", "text"}
      [] sel = "select" -> e.kind = "dropdown"
      [] sel = "question" -> e.kind = "question"
querySelectorAll(d, sel) == Ascending({e \in DOMAIN d : MatchesSelector(d[e], sel)})
\* findElements(selector, undefined): the direct query; without a description
\* the other strategies return []
findElements(d, sel) == querySelectorAll(d, sel)
\* the elements handleQuizQuestions walks over
QuizQuestions(d) == Ascending({e \in DOMAIN d : d[e].kind \in {"question", "radio", "checkbox"}})
\* question.querySelectorAll(radio, checkbox, option classes)
AnswerOptions(d, q) ==
    Ascending({e \in DOMAIN d : e > q /\ GroupOf(d, e) = q /\ d[e].kind \in {"radio", "checkbox"}})

\* element.click(): nothing on a disabled control; a radio button becomes the
\* checked one of its group; a checkbox toggles
Click(d, e) ==
    IF d[e].st = "disabled" THEN d
    ELSE IF d[e].kind = "radio"
         THEN [x \in DOMAIN d |->
                 IF x = e THEN [d[x] EXCEPT !.checked = TRUE]
                 ELSE IF d[x].kind = "radio" /\ GroupOf(d, x) = GroupOf(d, e)
                      THEN [d[x] EXCEPT !.checked = FALSE]
                 ELSE d[x]]
    ELSE IF d[e].kind = "checkbox" THEN [d EXCEPT ![e].checked = ~d[e].checked]
    ELSE d
\* element.value = value, with its input or change events
Write(d, e) == IF d[e].kind \in {"text", "dropdown"} THEN [d EXCEPT ![e].filled = TRUE] ELSE d
scrollIntoView(d, e) == IF d[e].st = "below" THEN [d EXCEPT ![e].st = "ok"] ELSE d
\* sleeps: the suspensions of the routine between its search for the targets
\* and this primitive action
Act(k, d, e, w) == [kind |-> k, el |-> e, st |-> d[e].st, sleeps |-> w]
\* element.value = value of a dropdown: the option of that value becomes the
\* selected one, and none is selected when no option has it
Assign(d, e, found) == [d EXCEPT ![e].filled = found]
\* what a select action names the option by: its value is the only one that
\* executeAction hands to performSelect
OptionKeys == {"value", "text", "index"}

\* One pass of the loop of a routine over the element e: the document, the
\* primitive actions and the number of sleeps it leaves.
\* the mutant: performSelect without its test of element.checked
SelectActs(d, e) == d[e].kind \in {"radio", "checkbox"} /\ ~d[e].checked
ClickOne(d, a, e, w) ==
    LET d1 == scrollIntoView(d, e)
    IN IF isElementClickable(d1[e].st)
       THEN [dom |-> Click(d1, e), acts |-> Append(a, Act("click", d1, e, w + 1)), waits |-> w + 2]
       ELSE [dom |-> d1, acts |-> a, waits |-> w + 1]
SelectOne(d, a, e, w, by, found) ==
    IF SelectActs(d, e)
    THEN [dom |-> Click(d, e), acts |-> Append(a, Act("click", d, e, w)), waits |-> w + 1]
    ELSE IF d[e].kind = "dropdown" /\ by = "value"
         THEN [dom |-> Assign(d, e, found), acts |-> Append(a, Act("write", d, e, w)),
               waits |-> w + 1]
    ELSE [dom |-> d, acts |-> a, waits |-> w + 1]
TypeOne(d, a, e, w) ==
    IF d[e].kind \in {"radio", "checkbox", "text"}
    THEN [dom |-> Write(d, e), acts |-> Append(a, Act("write", d, e, w)), waits |-> w + 1]
    ELSE [dom |-> d, acts |-> a, waits |-> w]
QuizOne(d, a, e, w) ==
    IF d[e].kind \in {"radio", "checkbox"}
    THEN IF ~d[e].checked
         THEN [dom |-> Click(d, e), acts |-> Append(a, Act("click", d, e, w)), waits |-> w + 1]
         ELSE [dom |-> d, acts |-> a, waits |-> w]
    ELSE LET opts == AnswerOptions(d, e)
         IN IF Len(opts) > 0
            THEN [dom |-> Click(d, opts[1]), acts |-> Append(a, Act("click", d, opts[1], w)),
                  waits |-> w + 1]
            ELSE [dom |-> d, acts |-> a, waits |-> w]

Routines == {"click", "select", "type", "quiz"}
TargetsOf(d, op, sel) == IF op = "quiz" THEN QuizQuestions(d) ELSE findElements(d, sel)
\* the routine is entered: it throws 'No elements found', returns at once
\* (no question on the page) or starts its loop
EnterRoutine(d, op, sel, by, found, n) ==
    LET t == TargetsOf(d, op, sel)
    IN [op |-> op, sel |-> sel, by |-> by, match |-> found, targets |-> t, i |-> 1,
        before |-> d, round |-> n, waits |-> 0,
        result |-> IF Len(t) > 0 THEN "-" ELSE IF op = "quiz" THEN "done" ELSE "threw"]

InitElements ==
    /\ TaskIdle("open", 0)
    /\ probe = NoProbe
    /\ dom \in Pages
    /\ acts = <<>>
    /\ routine = NoRoutine

executeAction ==
    /\ routine.op = "-"
    /\ \E op \in Routines, sel \in Selectors, by \in OptionKeys, found \in BOOLEAN :
         /\ op = "quiz" => sel = "input"
         /\ (op # "select" \/ sel # "select") => (by = "value" /\ found)
         /\ routine' = EnterRoutine(dom, op, sel, by, found, 1)
    /\ UNCHANGED <<dom, acts, taskVars, probe>>

\* the loop handles its next element and sleeps, or returns after the last
ElementStep ==
    /\ routine.op # "-" /\ routine.result = "-"
    /\ LET e == routine.targets[routine.i]
           w == routine.waits
           r == CASE routine.op = "click" -> ClickOne(dom, acts, e, w)
                  [] routine.op = "select" -> SelectOne(dom, acts, e, w, routine.by, routine.match)
                  [] routine.op = "type" -> TypeOne(dom, acts, e, w)
                  [] routine.op = "quiz" -> QuizOne(dom, acts, e, w)
       IN /\ dom' = r.dom
          /\ acts' = r.acts
          /\ routine' = [routine EXCEPT !.i = routine.i + 1,
                                        !.waits = r.waits,
                                        !.result = IF routine.i = Len(routine.targets)
                                                   THEN "done" ELSE "-"]
    /\ UNCHANGED <<taskVars, probe>>

\* the same action is executed again on the page as the first run left it
ExecutedAgain ==
    /\ routine.op # "-" /\ routine.result # "-"
    /\ routine.round < MaxRounds
    /\ routine' = EnterRoutine(dom, routine.op, routine.sel, routine.by, routine.match,
                                routine.round + 1)
    /\ acts' = <<>>
    /\ UNCHANGED <<dom, taskVars, probe>>

NextElements ==
    \/ executeAction
    \/ ElementStep
    \/ ExecutedAgain

SpecElements == InitElements /\ [][NextElements]_vars

\* ================================================================ claims
IsPhasePrefix(t) == Len(t) <= Len(Phases) /\ \A k \in 1..Len(t) : t[k] = Phases[k]
Entered(c, ph) == \E k \in 1..Len(trace[c]) : trace[c][k] = ph
Completed(c) == phase[c] \in Terminal

C2_SecondCallRejected ==
    [][\A c \in Calls :
         (phase[c] = "Idle" /\ phase'[c] # "Idle" /\ isRunning)
            => /\ Completed(c)'
               /\ isRunning' = isRunning
               /\ actionHistory' = actionHistory
               /\ idx'[c] = 0 /\ prims'[c] = 0]_vars

\* C3: executeTask never rejects: every completed call has returned an object
\* with a boolean success, and with an error message when success is false.
C3_AlwaysReturnsResult ==
    \A c \in Calls :
        Completed(c) => /\ ret[c].kind = "returned"
                        /\ ret[c].success \in BOOLEAN
                        /\ ~ret[c].success => ret[c].error # ""

\* C4: the phases of a run are entered in the order Idle, Analyzing, Planning,
\* Executing, Verifying, Reporting, Done, each at most once and none skipped;
\* a run may end in Failed instead; a run that ends in Done has entered all.
C4_PhaseOrder ==
    \A c \in Calls :
        LET t == trace[c]
        IN /\ \/ IsPhasePrefix(t)
              \/ /\ Len(t) >= 2
                 /\ t[Len(t)] = "Failed"
                 /\ IsPhasePrefix(SubSeq(t, 1, Len(t) - 1))
           /\ t[Len(t)] = phase[c]
           /\ phase[c] = "Done" => t = Phases

\* a run has ended in Done
C4_Witness == \E c \in Calls : phase[c] = "Done" /\ trace[c] = Phases /\ idx[c] = planLen[c]

\* C5: a run whose mandatory step failed without recovery still enters
\* Verifying and then Reporting.
C5_MandatoryFailureIsVerified ==
    \A c \in Calls :
        (Completed(c) /\ cause[c] = "step_failed")
            => (Entered(c, "Verifying") /\ Entered(c, "Reporting"))

\* C6: a mandatory step whose recovery failed ends the loop; a failed
\* optional step gets a result entry with success=false and the loop goes on.
C6_FailedStepHandling ==
    \A c \in Calls :
        /\ cause[c] = "step_failed" => Completed(c)
        /\ \A k \in 1..Len(results[c]) :
              (results[c][k].error /\ results[c][k].optional)
                  => (~results[c][k].success /\ phase[c] \in {"Executing", "Verifying"})

\* C7: when the reasoning-service call of Analyzing or Planning fails, the run
\* has started no step, written nothing to the page, issued no further request
\* and returns success=false with the error message.
C7_UpstreamFailureSurfaces ==
    \A c \in Calls :
        cause[c] \in {"api_Analyzing", "api_Planning"}
            => /\ idx[c] = 0 /\ prims[c] = 0
               /\ apiCalls[c] = (IF cause[c] = "api_Analyzing" THEN 1 ELSE 2)
               /\ ret[c].kind = "returned"
               /\ ~ret[c].success
               /\ ret[c].error = cause[c]

\* C8: when the reasoning-service call of Verifying fails, the run does not
\* fail: it returns a result that carries a locally built report.
C8_VerifyFailureFallsBack ==
    \A c \in Calls :
        cause[c] = "api_Verifying"
            => (ret[c].kind = "returned" /\ ret[c].success /\ ret[c].report)

\* C9: whatever text the reasoning service returns for the plan, the plan
\* object has a step sequence and the Executing phase iterates it without
\* raising an error.
C9_PlanAlwaysIterable ==
    \A c \in Calls :
        /\ cause[c] # "steps_not_iterable"
        /\ Entered(c, "Executing") => planLen[c] >= 0

\* C10: the action history holds only entries of the task that is running:
\* while no call of executeTask is in progress it is empty, so every call
\* starts with an empty history.
C10_HistoryScopedToTask ==
    (\A c \in Calls : phase[c] \notin Active) => actionHistory = <<>>

\* entries of the history other than those of location changes
RECURSIVE OwnEntries(_)
OwnEntries(h) ==
    IF h = <<>> THEN <<>>
    ELSE IF Head(h) = "navigation" THEN OwnEntries(Tail(h))
    ELSE <<Head(h)>> \o OwnEntries(Tail(h))
ApiCauses == {"api_Analyzing", "api_Planning", "api_Verifying"}
OnlyCall(c) == \A d \in Calls \ {c} : phase[d] = "Idle"

\* C13: in a task run the history never holds more entries than two per plan
\* step (the step and at most one recovery attempt), also when the location
\* changes or the page logs errors during the run.
C13_HistoryBounded ==
    \A c \in Calls :
        (OnlyCall(c) /\ phase[c] \in Active) => Len(actionHistory) <= 2 * Len(plan[c])

\* C16: in scenario B (one mandatory click step whose selector never matches,
\* no alternative selectors) the run, unless a reasoning-service call fails,
\* goes on to Reporting and returns a result with a report.
C16_ScenarioBReports ==
    \A c \in Calls :
        (world = "ScenarioB" /\ Completed(c) /\ cause[c] \notin ApiCauses)
            => /\ Entered(c, "Reporting")
               /\ ret[c].kind = "returned"
               /\ ret[c].report

\* C17: in scenario A (one mandatory select step on a radio button that is
\* on the page and already checked) the step raises no error, no recovery is
\* started for it and the run does not fail in Executing.
C17_ScenarioANotFailed ==
    \A c \in Calls :
        world = "ScenarioA"
            => /\ errMsg[c] = {}
               /\ pos[c] # "recovering"
               /\ \A k \in 1..Len(results[c]) : ~results[c][k].error
               /\ cause[c] \notin {"step_failed", "RangeError"}

\* C18: in scenario C (type, select, click; the name field already holds the
\* value) the type step leaves no entry in the history, and when the plan is
\* done the history holds one entry for the select and one for the click step.
C18_ScenarioCHistory ==
    \A c \in Calls :
        world = "ScenarioC"
            => /\ (phase[c] = "Executing" /\ idx[c] <= 1) => OwnEntries(actionHistory) = <<>>
               /\ phase[c] = "Verifying" => OwnEntries(actionHistory) = <<"select", "click">>

\* C19: the number of writes a run makes to the page has a fixed maximum that
\* does not grow with the plan: with plans of up to MaxSteps steps it stays
\* below MaxSteps.
C19_ActionsCapped ==
    \A c \in Calls : prims[c] < MaxSteps

\* the category the precedence of the claim gives a text, whatever its case
HasWord(text, w) == \E t \in text : t.word = w
ByPrecedence(text) ==
    IF HasWord(text, "not found") \/ HasWord(text, "no element") THEN "element_missing"
    ELSE IF HasWord(text, "timeout") THEN "timeout"
    ELSE IF HasWord(text, "permission") \/ HasWord(text, "access") THEN "permission_denied"
    ELSE IF HasWord(text, "network") \/ HasWord(text, "connection") THEN "network_error"
    ELSE "unknown_error"

\* C15: classifyError returns one value of the closed set of categories, the
\* one that the case-insensitive keyword tests give in the order not found /
\* no element, timeout, permission / access, network / connection, else
\* unknown_error; and getRecoveryStrategy has a handler of its own for it.
C15_ClassifierPrecedence ==
    (probe.fn = "classifyError" /\ probe.out # "-")
        => /\ probe.out \in Categories
           /\ probe.out = ByPrecedence(probe.text)
           /\ probe.handler = probe.out

\* a text with an upper-case keyword and a keyword of a later category has
\* been classified by the earlier one
C15_Witness ==
    /\ probe.fn = "classifyError"
    /\ probe.text = {[word |-> "timeout", upper |-> TRUE], [word |-> "network", upper |-> FALSE]}
    /\ probe.out = "timeout"
    /\ probe.handler = "timeout"

\* interactable as the specification defines it: not display-suppressed, not
\* zero-area, not pointer-blocked, not disabled
Interactable(y) == y \in ElementStates \ {"hidden", "zero", "blocked", "disabled"}
StrategyOrder == <<"direct", "description", "context", "similarity">>
Rank(st) == CHOOSE k \in 1..Len(StrategyOrder) : StrategyOrder[k] = st
YieldOf(l, st) ==
    CASE st = "direct" -> l.direct
      [] st = "description" -> IF l.description = "absent" THEN "none" ELSE l.description
      [] st = "context" -> "none"
      [] st = "similarity" -> l.similarity

\* C14: element resolution invokes its strategies in the order direct
\* selector, description, semantic context, similarity; the first invoked
\* strategy that yields an interactable element ends the resolution with that
\* element, and no strategy is invoked after one that yielded an interactable
\* element.
C14_ResolverOrder ==
    (probe.fn = "findElementIntelligently" /\ probe.from # "-")
        => LET inv == probe.invoked
               l == probe.locator
           IN /\ \A j, k \in 1..Len(inv) : j < k => Rank(inv[j]) < Rank(inv[k])
              /\ \A k \in 1..Len(inv) :
                    Interactable(YieldOf(l, inv[k]))
                        => (k = Len(inv) /\ probe.from = inv[k])

Clicked(e) == \E k \in 1..Len(acts) : acts[k].kind = "click" /\ acts[k].el = e
IsOption(d, e) == d[e].kind \in {"radio", "checkbox"}

\* C12: when a select action or the quiz handler is executed a second time,
\* no radio button or checkbox that it targets and that was checked when the
\* second execution began is clicked or changes its checked state.
C12_SecondRunIdempotent ==
    (routine.op \in {"select", "quiz"} /\ routine.round = 2)
        => \A e \in DOMAIN dom :
              (/\ IsOption(routine.before, e) /\ routine.before[e].checked
               /\ \E k \in 1..Len(routine.targets) :
                     \/ routine.targets[k] = e
                     \/ GroupOf(dom, e) = routine.targets[k])
                  => (dom[e].checked /\ ~Clicked(e))

\* C20: the quiz handler clicks no option of a question group that had a
\* checked option when it started, and leaves the checked options of such a
\* group as they were.
C20_AnsweredQuestionsSkipped ==
    routine.op = "quiz"
        => \A e \in DOMAIN dom :
              (/\ IsOption(dom, e)
               /\ \E f \in DOMAIN dom : /\ IsOption(dom, f)
                                         /\ GroupOf(dom, f) = GroupOf(dom, e)
                                         /\ routine.before[f].checked)
                  => (~Clicked(e) /\ dom[e].checked = routine.before[e].checked)

\* the positions at which a call is suspended inside the processing of a step
InStep == {"navigating", "waiting", "recovering"}

\* C21: within one run the steps are started in increasing index order, one
\* index at a time, and only when no step is in progress: between the start
\* of a step and the end of its wait or recovery the step in progress is the
\* one started last, and no other step is started.
C21_StepsInOrder ==
    /\ [](\A c \in Calls :
            /\ phase[c] = "Executing" => idx[c] <= Len(plan[c])
            /\ pos[c] \in InStep => (idx[c] >= 1 /\ step[c] = plan[c][idx[c]])
            /\ pos[c] = "loop" => step[c] = NoStep)
    /\ [][\A c \in Calls :
            idx'[c] # idx[c]
               => (idx'[c] = idx[c] + 1 /\ pos[c] = "loop" /\ phase[c] = "Executing")]_vars

\* a run has processed a plan of two steps, the first through recovery
C21_Witness ==
    \E c \in Calls : /\ phase[c] = "Verifying"
                     /\ idx[c] = 2
                     /\ Len(results[c]) = 2
                     /\ results[c][1].error /\ ~results[c][2].error

\* C22: a result entry with success=true belongs to a step whose action has
\* been performed on the page.
C22_SuccessMeansActed ==
    \A c \in Calls : \A k \in 1..Len(results[c]) :
        results[c][k].success => results[c][k].acted

\* C23: while any call of executeTask is between its start and its
\* completion, isRunning is true.
C23_RunningWhileInProgress ==
    (\E c \in Calls : phase[c] \in Active) => isRunning

\* C24: every error raised while a step is processed has been passed to
\* classifyError and to one recovery strategy, and no step has more than one
\* recovery attempt; a step that raised nothing has none.
C24_EveryFailureRecoveredOnce ==
    \A c \in Calls : /\ tally[c].raised <= 1
                     /\ tally[c].recovered = tally[c].raised

\* C26: no monitor of setupActionMonitoring is active unless a call is
\* executing, and there is never more than one instance of each.
C26_MonitorsStopped ==
    /\ mutationObservers <= 1 /\ urlIntervals <= 1 /\ consoleWrappers <= 1
    /\ (\A c \in Calls : phase[c] \notin Active)
          => (mutationObservers = 0 /\ urlIntervals = 0 /\ consoleWrappers = 0)

\* C27: while a call is executing its plan, a mutation burst, an observed
\* location change and a page error message each append one entry to the
\* history and change nothing of the run (phase, position, step, results).
C27_SignalsAreContext ==
    [][((\E c \in Calls : phase[c] = "Executing") /\ isRunning
        /\ (\/ signals' # signals
            \/ (lastUrl' # lastUrl /\ urlIntervals' = urlIntervals)))
          => /\ Len(actionHistory') = Len(actionHistory) + 1
             /\ UNCHANGED <<phase, pos, idx, step, results, cause, ret>>]_vars

\* the categories that have no local recovery
NotRecoverable == {"timeout", "permission_denied", "network_error", "unknown_error"}

C30_WaitExpiryIsTimeout ==
    \A c \in Calls :
        (tally[c].stage = "wait" /\ tally[c].recovered = 1) => tally[c].category = "timeout"

\* the alternative selectors that match, by index
Matching(alts) == {k \in 1..Len(alts) : alts[k] = "match"}
FirstOf(S) == CHOOSE k \in S : \A j \in S : k <= j

\* C28: when the element_missing recovery has ended, it has queried the
\* alternative selectors in list order; if one of them matches it has succeeded
\* with the first that does, without waiting; if none matches it has waited
\* once, queried the primary selector once, and succeeded exactly if that
\* matched.
C28_AlternativesThenPrimary ==
    (probe.fn = "element_missing" /\ probe.out \in {"success", "failure"})
        => LET m == Matching(probe.alts)
           IN /\ \A k \in 1..Len(probe.queried) : probe.queried[k] = k
              /\ m # {} => /\ probe.out = "success" /\ probe.by = "alternative"
                           /\ Len(probe.queried) = FirstOf(m)
                           /\ probe.waits = 0 /\ probe.requeried = 0
              /\ m = {} => /\ Len(probe.queried) = Len(probe.alts)
                           /\ probe.waits = 1 /\ probe.requeried = 1
                           /\ (probe.out = "success") = (probe.primary = "match")

\* C25: when timers fire and every request to the reasoning service returns
\* or fails, a run that has started completes: the caller gets its result,
\* whatever the page does and however long its wait conditions stay unmet.
C25_RunCompletes ==
    \A c \in Calls : (phase[c] \in Active) ~> (Completed(c) /\ ret[c].kind # "none")

\* a run of a two-step plan has completed after a wait condition of its
\* last step had used up its time
C25_Witness ==
    \E c \in Calls : /\ phase[c] = "Done" /\ planLen[c] = 2
                     /\ tally[c].stage = "wait" /\ tally[c].recovered = 1
                     /\ ~isRunning

\* C31: element resolution never raises: when it has ended it has returned
\* either no element or an element that is interactable.
C31_ResolutionTotal ==
    (probe.fn = "findElementIntelligently" /\ probe.from # "-")
        => /\ probe.from # "threw"
           /\ probe.from # "null" => Interactable(YieldOf(probe.locator, probe.from))

\* C32: the verdict of the interactability test on an element is true exactly
\* if the element is not display-suppressed, has a non-zero area, is not
\* pointer-blocked and is not disabled.
C32_InteractableIsFourConditions ==
    (probe.fn = "findElementIntelligently" /\ probe.from # "-")
        => \A k \in 1..Len(probe.verdicts) :
              YieldOf(probe.locator, probe.invoked[k]) \in ElementStates
                 => (probe.verdicts[k]
                        <=> Interactable(YieldOf(probe.locator, probe.invoked[k])))

\* C33: in a click action no suspension lies between the resolution of the
\* target element and the click applied to it.
C33_ResolveThenAct ==
    routine.op = "click"
        => \A k \in 1..Len(acts) : acts[k].kind = "click" => acts[k].sleeps = 0

Written(e) == \E k \in 1..Len(acts) : acts[k].kind = "write" /\ acts[k].el = e

\* C36: when a select action on a dropdown has ended, an option named by
\* value, else by visible text, else by index has been chosen; when the text
\* or the index names no option the action has failed, the selection is as
\* it was and no change event has been raised.
C36_DropdownByValueTextIndex ==
    (routine.op = "select" /\ routine.round = 1 /\ routine.result # "-")
        => \A k \in 1..Len(routine.targets) :
              LET e == routine.targets[k]
              IN dom[e].kind = "dropdown"
                    => /\ routine.match => (routine.result = "done" /\ dom[e].filled)
                       /\ (~routine.match /\ routine.by \in {"text", "index"})
                             => /\ routine.result = "threw"
                                /\ dom[e] = routine.before[e]
                                /\ ~Written(e)

\* C37: when a type action has ended, a target that is neither a text field
\* nor an editable region has made it fail and has neither been written to
\* nor sent an event; a text field holds the value and has had its events.
C37_TypeOnlyIntoTextTargets ==
    (routine.op = "type" /\ routine.round = 1 /\ routine.result # "-")
        => \A k \in 1..Len(routine.targets) :
              LET e == routine.targets[k]
              IN /\ dom[e].kind = "question"
                      => /\ routine.result = "threw"
                         /\ dom[e] = routine.before[e]
                         /\ ~Written(e)
                 /\ dom[e].kind = "text" => (dom[e].filled /\ Written(e))

\* C34: a wait step for a selector fails only by the timeout of its polls:
\* the error that its validation or its action raises comes from the polling
\* of the action and is classified as timeout.
C34_WaitStepTimesOut ==
    \A c \in Calls :
        (/\ tally[c].action = "wait" /\ tally[c].raised > 0
         /\ tally[c].stage \in {"validation", "action"})
            => /\ tally[c].stage = "action"
               /\ tally[c].recovered > 0 => tally[c].category = "timeout"

\* the kinds of a step that is no step of the executor
NoActionKinds == {"undefined", "none", "hover"}

\* C35: a step that is undefined, has no action kind or has an unknown
\* action kind performs no primitive action, leaves no entry of its own in
\* the history, and raises an error that is passed to the classifier.
C35_InvalidStepRejected ==
    /\ \A k \in 1..Len(actionHistory) : actionHistory[k] \notin NoActionKinds
    /\ \A c \in Calls :
          tally[c].action \in NoActionKinds
             => /\ ~tally[c].acted
                /\ tally[c].raised = 1
                /\ tally[c].recovered = 1 /\ tally[c].category \in Categories

====
